---- MODULE Spec2Model ----
(***************************************************************************)
(* A model of ANS_DesignPatterns_MCP: the markdown sanitizer               *)
(* (design-patterns/cleanup_markdown.py) and the pattern server            *)
(* (server.py).                                                            *)
(*                                                                         *)
(* Text is a sequence of Unicode code points (a Python str); a list of     *)
(* lines is a sequence of such sequences.  Literals are written as code    *)
(* points with the string they stand for in a comment.                     *)
(***************************************************************************)
EXTENDS Integers, Sequences, FiniteSets, TLC

VARIABLES
    \* ---- MarkdownCleaner.clean_content, one loop iteration per step
    content,                 \* the argument of clean_content
    lines,                   \* content.split('\n')
    cleaned_lines,           \* the lines kept so far
    i,                       \* index of the next line (1-based)
    skip_until_next_section, \* the skip flag
    result,                  \* the value returned by clean_content
    pc,                      \* "off" | "start" | "loop" | "done"
    pass_no,                 \* 1: first run, 2: run on the first run's output
    first_result,            \* the first run's output (pass_no = 2)
    \* ---- the pattern directory
    files,                   \* file name -> [text, readable, writable]
    dir_listable,            \* whether os.listdir succeeds on the directory
    \* ---- server.py
    started,                 \* app_lifespan has run
    patterns,                \* AppContext.patterns: identifier -> occurrences
    req,                     \* the retrieval between its exists() and its open()
    resp,                    \* the value returned to the caller, until taken
    \* ---- MarkdownCleaner.clean_all_markdown_files
    markdown_files,          \* the selected file names
    idx,                     \* position in sorted(markdown_files) (1-based)
    original_content,        \* clean_file: the text read, until it returns
    cleaned_count,
    processed_files,
    bpc                      \* "off" | "init" | "loop" | "cleaning" | "done" | "aborted"

cleanerVars == <<content, lines, cleaned_lines, i, skip_until_next_section,
                 result, pc, pass_no, first_result>>
serverVars == <<dir_listable, started, patterns, req, resp>>
batchVars == <<markdown_files, idx, original_content, cleaned_count,
               processed_files, bpc>>

vars == <<cleanerVars, files, serverVars, batchVars>>

-----------------------------------------------------------------------------
(* Python str primitives                                                   *)

\* str.isspace() / regex \s for str patterns: the Unicode whitespace set.
WhiteSpace == {9, 10, 11, 12, 13, 28, 29, 30, 31, 32, 133, 160, 5760}
                  \cup (8192..8202) \cup {8232, 8233, 8239, 8287, 12288}

IsSpace(c) == c \in WhiteSpace

LF == <<10>>           \* "\n"

\* s[k:k+len(p)] == p  (k is 1-based)
StartsWithAt(s, p, k) ==
    /\ k >= 1
    /\ k + Len(p) - 1 <= Len(s)
    /\ \A j \in 1..Len(p) : s[k + j - 1] = p[j]

MinOf(S) == CHOOSE m \in S : \A n \in S : m <= n

\* s.find(p) + 1: the 1-based index of the first occurrence of p in s, 0 if none.
Find(s, p) ==
    IF Len(s) < Len(p) THEN 0
    ELSE LET hits == {k \in 1..(Len(s) - Len(p) + 1) : StartsWithAt(s, p, k)}
         IN  IF hits = {} THEN 0 ELSE MinOf(hits)

\* p in s
Contains(s, p) == Find(s, p) # 0

\* s.startswith(p)
startswith(s, p) == StartsWithAt(s, p, 1)

\* s.endswith(p)
endswith(s, p) == Len(p) <= Len(s) /\ StartsWithAt(s, p, Len(s) - Len(p) + 1)

\* s.lstrip()
lstrip(s) ==
    IF s = <<>> THEN s
    ELSE LET solid == {k \in 1..Len(s) : ~IsSpace(s[k])}
         IN  IF solid = {} THEN <<>> ELSE SubSeq(s, MinOf(solid), Len(s))

\* s.rstrip()
rstrip(s) ==
    IF s = <<>> THEN s
    ELSE LET solid == {k \in 1..Len(s) : ~IsSpace(s[k])}
         IN  IF solid = {} THEN <<>>
             ELSE SubSeq(s, 1, CHOOSE m \in solid : \A n \in solid : n <= m)

\* s.strip()
strip(s) == IF s = <<>> THEN s ELSE lstrip(rstrip(s))

\* content.split('\n')
RECURSIVE split(_)
split(s) ==
    LET k == Find(s, LF)
    IN  IF k = 0 THEN <<s>>
        ELSE <<SubSeq(s, 1, k - 1)>> \o split(SubSeq(s, k + 1, Len(s)))

\* '\n'.join(ls)
RECURSIVE join(_)
join(ls) ==
    IF ls = <<>> THEN <<>>
    ELSE IF Len(ls) = 1 THEN ls[1]
    ELSE ls[1] \o LF \o join(Tail(ls))

-----------------------------------------------------------------------------
(* MarkdownCleaner.clean_content: the literals                             *)

RU == <<82, 85, 58>>        \* "RU:"
EN == <<69, 78, 58>>        \* "EN:"

\* the keyword list of line 25:
\* 'RU:', 'Назначение:', 'Паттерн', 'Конкретные', 'Абстрактная Фабрика', 'объектов'
TriggerKeywords == <<
    <<82, 85, 58>>,
    <<1053, 1072, 1079, 1085, 1072, 1095, 1077, 1085, 1080, 1077, 58>>,
    <<1055, 1072, 1090, 1090, 1077, 1088, 1085>>,
    <<1050, 1086, 1085, 1082, 1088, 1077, 1090, 1085, 1099, 1077>>,
    <<1040, 1073, 1089, 1090, 1088, 1072, 1082, 1090, 1085, 1072, 1103, 32,
      1060, 1072, 1073, 1088, 1080, 1082, 1072>>,
    <<1086, 1073, 1098, 1077, 1082, 1090, 1086, 1074>> >>

\* the prefixes of lines 31-37 (tested on line.strip()):
\* 'EN:', 'class ', 'def ', 'from ', 'import ', '#include', '*/'
ResumePrefixes == <<
    <<69, 78, 58>>,
    <<99, 108, 97, 115, 115, 32>>,
    <<100, 101, 102, 32>>,
    <<102, 114, 111, 109, 32>>,
    <<105, 109, 112, 111, 114, 116, 32>>,
    <<35, 105, 110, 99, 108, 117, 100, 101>>,
    <<42, 47>> >>

Fence == <<96, 96, 96>>     \* "```"

\* the character class [А-Яа-я] of line 51: U+0410 .. U+044F
CyrLo == 1040
CyrHi == 1103

\* russian_patterns of lines 54-64, each without its trailing '.*':
\* 'Назначение:', 'Паттерн', 'собственный класс', 'исполнения программы',
\* 'Конкретные', 'Абстрактная', 'объектов', 'интерфейс', 'алгоритмов'
russian_patterns == <<
    <<1053, 1072, 1079, 1085, 1072, 1095, 1077, 1085, 1080, 1077, 58>>,
    <<1055, 1072, 1090, 1090, 1077, 1088, 1085>>,
    <<1089, 1086, 1073, 1089, 1090, 1074, 1077, 1085, 1085, 1099, 1081, 32,
      1082, 1083, 1072, 1089, 1089>>,
    <<1080, 1089, 1087, 1086, 1083, 1085, 1077, 1085, 1080, 1103, 32,
      1087, 1088, 1086, 1075, 1088, 1072, 1084, 1084, 1099>>,
    <<1050, 1086, 1085, 1082, 1088, 1077, 1090, 1085, 1099, 1077>>,
    <<1040, 1073, 1089, 1090, 1088, 1072, 1082, 1090, 1085, 1072, 1103>>,
    <<1086, 1073, 1098, 1077, 1082, 1090, 1086, 1074>>,
    <<1080, 1085, 1090, 1077, 1088, 1092, 1077, 1081, 1089>>,
    <<1072, 1083, 1075, 1086, 1088, 1080, 1090, 1084, 1086, 1074>> >>

\* the bare comment markers of lines 70-72: '*', '//', '#'
CommentMarkers == << <<42>>, <<47, 47>>, <<35>> >>

-----------------------------------------------------------------------------
(* MarkdownCleaner.clean_content: the regular expressions                  *)
(* Every pattern needs at least one character, so each substitution        *)
(* returns the empty line as it is.                                        *)

\* re.sub(r'\s*EN:\s*', '', line): every non-overlapping match, leftmost first;
\* a match takes the whitespace run before "EN:" and the one after it.
RECURSIVE SubEN(_)
SubEN(s) ==
    LET k == Find(s, EN)
    IN  IF k = 0 THEN s
        ELSE rstrip(SubSeq(s, 1, k - 1))
                 \o SubEN(lstrip(SubSeq(s, k + Len(EN), Len(s))))

\* re.sub(r'\s*RU:\s*.*', '', line): from the whitespace before the first "RU:"
\* to the end of the line.
SubRU(s) ==
    IF s = <<>> THEN s
    ELSE LET k == Find(s, RU)
         IN  IF k = 0 THEN s ELSE rstrip(SubSeq(s, 1, k - 1))

\* re.sub(r'[А-Яа-я]+.*', '', line): from the first character of the class on.
SubCyrillic(s) ==
    IF s = <<>> THEN s
    ELSE LET hits == {k \in 1..Len(s) : s[k] >= CyrLo /\ s[k] <= CyrHi}
         IN  IF hits = {} THEN s ELSE SubSeq(s, 1, MinOf(hits) - 1)

\* re.IGNORECASE on a str pattern: characters match when their case folds agree.
Fold(c) ==
    CASE c >= 65 /\ c <= 90 -> c + 32                \* A-Z
      [] c >= 1040 /\ c <= 1071 -> c + 32            \* А-Я
      [] c >= 1024 /\ c <= 1039 -> c + 80            \* Ѐ-Џ
      [] c = 7296 -> 1074                            \* U+1C80..U+1C86: the
      [] c = 7297 -> 1076                            \* extra case variants of
      [] c = 7298 -> 1086                            \* в д о с т т ъ
      [] c = 7299 -> 1089
      [] c = 7300 \/ c = 7301 -> 1090
      [] c = 7302 -> 1098
      [] OTHER -> c

FoldAll(s) == [k \in 1..Len(s) |-> Fold(s[k])]

\* re.sub(pattern + '.*', '', line, flags=re.IGNORECASE)
SubPattern(s, p) ==
    LET k == Find(FoldAll(s), FoldAll(p))
    IN  IF k = 0 THEN s ELSE SubSeq(s, 1, k - 1)

\* for pattern in russian_patterns: line = re.sub(pattern, '', line, ...)
RECURSIVE SubRussian(_, _)
SubRussian(s, n) ==
    IF n > Len(russian_patterns) \/ s = <<>> THEN s
    ELSE SubRussian(SubPattern(s, russian_patterns[n]), n + 1)

\* lines 70-72: re.sub(r'^\s*M\s*$', '', line) for each marker M in turn.  Each
\* one empties a line that is only M and leaves any other line as it is.
SubComments(s) ==
    IF s = <<>> \/ \E n \in 1..Len(CommentMarkers) : strip(s) = CommentMarkers[n]
    THEN <<>> ELSE s

\* lines 45-72: the transformations of a line that is not skipped
TransformLine(line) ==
    SubComments(SubRussian(SubCyrillic(SubRU(SubEN(line))), 1))

\* line 25: any(keyword in line for keyword in [...])
IsTrigger(line) ==
    \E n \in 1..Len(TriggerKeywords) : Contains(line, TriggerKeywords[n])

\* a variant of IsResume that tests the prefixes on the line as it is
IsResumeUnstripped(line) ==
    \/ \E n \in 1..Len(ResumePrefixes) : startswith(line, ResumePrefixes[n])
    \/ strip(line) = <<>>
    \/ Contains(line, Fence)

\* lines 31-39: the condition that ends a skip region
IsResume(line) ==
    \/ \E n \in 1..Len(ResumePrefixes) : startswith(strip(line), ResumePrefixes[n])
    \/ strip(line) = <<>>
    \/ Contains(line, Fence)

\* a variant of Keeps that drops every line that is blank after cleaning
KeepsNonBlank(line, original_line) == strip(line) # <<>>

\* line 75: if line.strip() or original_line.strip() == ''
Keeps(line, original_line) == strip(line) # <<>> \/ strip(original_line) = <<>>

\* re.sub(r'\n\s*\n\s*\n', '\n\n', content): a match starts at a "\n" whose
\* whitespace run holds two more "\n" and ends at the last "\n" of that run.
RECURSIVE CollapseBlankLines(_)
CollapseBlankLines(s) ==
    LET k == IF s = <<>> THEN 0 ELSE Find(s, LF)
    IN  IF k = 0 THEN s
        ELSE LET solid == {j \in k..Len(s) : ~IsSpace(s[j])}
                 runEnd == IF solid = {} THEN Len(s) ELSE MinOf(solid) - 1
                 nls == {j \in k..runEnd : s[j] = 10}
                 lastNl == CHOOSE m \in nls : \A n \in nls : n <= m
             IN  IF Cardinality(nls) >= 3
                 THEN SubSeq(s, 1, k - 1) \o LF \o LF
                          \o CollapseBlankLines(SubSeq(s, lastNl + 1, Len(s)))
                 ELSE SubSeq(s, 1, k) \o CollapseBlankLines(SubSeq(s, k + 1, Len(s)))

\* One iteration of the for loop (lines 21-76) on the pair <<skip, cleaned>>.
LoopBody(skip, cleaned, line) ==
    IF IsTrigger(line) THEN <<TRUE, cleaned>>
    ELSE IF skip /\ ~IsResume(line) THEN <<TRUE, cleaned>>
    ELSE LET cleaned_line == TransformLine(line)
         IN  <<FALSE, IF Keeps(cleaned_line, line)
                      THEN Append(cleaned, cleaned_line)
                      ELSE cleaned>>

RECURSIVE RunLoop(_, _, _, _)
RunLoop(ls, n, skip, cleaned) ==
    IF n > Len(ls) THEN cleaned
    ELSE LET st == LoopBody(skip, cleaned, ls[n])
         IN  RunLoop(ls, n + 1, st[1], st[2])

\* clean_content as a function of its argument (used by clean_file)
clean_content(text) == CollapseBlankLines(join(RunLoop(split(text), 1, FALSE, <<>>)))

-----------------------------------------------------------------------------
(* Inputs of clean_content                                                 *)

MaxLines == 3        \* most lines of a text built from SampleLines
MaxCoreLines == 6    \* most lines of a text built from CoreLines

\* Lines that exercise each rule of the loop body.
SampleLines == {
    <<>>,                                  \* ""          blank
    <<32>>,                                \* " "         blank (whitespace)
    <<120>>,                               \* "x"         plain text
    <<82, 85, 58, 32, 1103>>,              \* "RU: я"     trigger
    <<69, 78, 58, 32, 120>>,               \* "EN: x"     resume, prefix
    <<32, 69, 78, 58, 120>>,               \* " EN:x"     resume, indented
    <<32, 100, 101, 102, 32, 102>>,        \* " def f"    resume, indented
    <<100, 101, 102, 32>>,                 \* "def "      prefix that ends in stripped whitespace
    <<96, 96, 96>>,                        \* "```"       resume, fence
    <<69, 78, 58, 32, 82, 85, 58>>,        \* "EN: RU:"   trigger and resume
    <<69, 69, 78, 58, 78, 58, 120>>,       \* "EEN:N:x"   marker inside marker
    <<120, 32, 1103>>,                     \* "x я"       text, then Cyrillic
    <<1105, 120>>,                         \* "ёx"        Cyrillic outside А-я
    <<42>>                                 \* "*"         bare comment marker
    }

\* The lines that decide which lines survive: blank, text, trigger, emptied.
CoreLines == {
    <<>>,                                  \* ""
    <<32>>,                                \* " "
    <<120>>,                               \* "x"
    <<82, 85, 58, 32, 1103>>,              \* "RU: я"
    <<1103>>                               \* "я"         emptied by line 51
    }

\* the texts of 1..n lines drawn from V
SeqsUpTo(V, n) == UNION {[1..m -> V] : m \in 1..n}
Texts(V, n) == {join(ls) : ls \in SeqsUpTo(V, n)}

-----------------------------------------------------------------------------
(* MarkdownCleaner.clean_content as a state machine                        *)

NoFiles == [n \in {} |-> 0]
NoReq == [op |-> "none"]
NoResp == [op |-> "none"]

CleanerOff ==
    /\ content = <<>> /\ lines = <<>> /\ cleaned_lines = <<>> /\ i = 1
    /\ skip_until_next_section = FALSE /\ result = <<>> /\ pc = "off"
    /\ pass_no = 1 /\ first_result = <<>>

ServerOff ==
    /\ dir_listable = TRUE /\ started = FALSE /\ patterns = NoFiles
    /\ req = NoReq /\ resp = NoResp

BatchOff ==
    /\ markdown_files = {} /\ idx = 1 /\ original_content = <<>>
    /\ cleaned_count = 0 /\ processed_files = <<>> /\ bpc = "off"

InitCleaner(inputs) ==
    /\ content \in inputs
    /\ lines = <<>>
    /\ cleaned_lines = <<>>
    /\ i = 1
    /\ skip_until_next_section = FALSE
    /\ result = <<>>
    /\ pc = "start"
    /\ pass_no = 1
    /\ first_result = <<>>
    /\ files = NoFiles
    /\ ServerOff
    /\ BatchOff

\* lines 17-19
Begin ==
    /\ pc = "start"
    /\ lines' = split(content)
    /\ cleaned_lines' = <<>>
    /\ skip_until_next_section' = FALSE
    /\ i' = 1
    /\ pc' = "loop"
    /\ UNCHANGED <<content, result, pass_no, first_result>>
    /\ UNCHANGED <<files, serverVars, batchVars>>

\* lines 21-76, one iteration
ProcessLine ==
    /\ pc = "loop"
    /\ i <= Len(lines)
    /\ LET st == LoopBody(skip_until_next_section, cleaned_lines, lines[i])
       IN  /\ skip_until_next_section' = st[1]
           /\ cleaned_lines' = st[2]
    /\ i' = i + 1
    /\ UNCHANGED <<content, lines, result, pc, pass_no, first_result>>
    /\ UNCHANGED <<files, serverVars, batchVars>>

\* lines 78-82
Finish ==
    /\ pc = "loop"
    /\ i > Len(lines)
    /\ result' = CollapseBlankLines(join(cleaned_lines))
    /\ pc' = "done"
    /\ UNCHANGED <<content, lines, cleaned_lines, i, skip_until_next_section,
                   pass_no, first_result>>
    /\ UNCHANGED <<files, serverVars, batchVars>>

\* clean_content(clean_content(x)): the second run takes the first run's output
Rerun ==
    /\ pc = "done"
    /\ pass_no = 1
    /\ first_result' = result
    /\ content' = result
    /\ pass_no' = 2
    /\ pc' = "start"
    /\ UNCHANGED <<lines, cleaned_lines, i, skip_until_next_section, result>>
    /\ UNCHANGED <<files, serverVars, batchVars>>

NextClean == Begin \/ ProcessLine \/ Finish
NextTwice == Begin \/ ProcessLine \/ Finish \/ Rerun

\* one run of clean_content on every text of up to MaxLines sample lines
Spec == InitCleaner(Texts(SampleLines, MaxLines)) /\ [][NextClean]_vars
\* one run on every text of up to MaxCoreLines core lines
SpecLong == InitCleaner(Texts(CoreLines, MaxCoreLines)) /\ [][NextClean]_vars
\* two runs, the second on the output of the first
SpecTwice == InitCleaner(Texts(SampleLines, MaxLines)) /\ [][NextTwice]_vars

-----------------------------------------------------------------------------
(* Properties of clean_content                                             *)

\* a line that is empty or whitespace only
IsBlank(line) == strip(line) = <<>>

\* the lines of a text: the pieces between line breaks, a final line break
\* ending the last line rather than starting an empty one
TextLines(text) ==
    LET ls == split(text)
    IN  IF Len(ls) > 1 /\ ls[Len(ls)] = <<>> THEN SubSeq(ls, 1, Len(ls) - 1) ELSE ls

\* the Cyrillic block U+0400 .. U+04FF
IsCyrillic(c) == c >= 1024 /\ c <= 1279

BlankLinesOf(ls) == SelectSeq(ls, IsBlank)

NoAdjacentBlank(ls) == \A k \in 1..(Len(ls) - 1) : ~(IsBlank(ls[k]) /\ IsBlank(ls[k + 1]))

\* C1: running clean_content on its own output changes nothing:
\* clean_content(clean_content(x)) = clean_content(x).
C1_Idempotent == (pc = "done" /\ pass_no = 2) => result = first_result

\* C2: no line of the output holds a Cyrillic character, "RU:" or "EN:".
C2_NoMarkerInOutput ==
    pc = "done" =>
        \A k \in 1..Len(TextLines(result)) :
            LET line == TextLines(result)[k]
            IN  /\ \A j \in 1..Len(line) : ~IsCyrillic(line[j])
                /\ ~Contains(line, RU)
                /\ ~Contains(line, EN)

\* C6: every run of two or more blank lines is collapsed to one, so the output
\* never holds two consecutive blank lines.
C6_NoTwoBlankLines == pc = "done" => NoAdjacentBlank(TextLines(result))

\* the blank input lines with no blank input line next to them
IsolatedBlanks(ls) ==
    {k \in 1..Len(ls) :
        /\ IsBlank(ls[k])
        /\ (k > 1 => ~IsBlank(ls[k - 1]))
        /\ (k < Len(ls) => ~IsBlank(ls[k + 1]))}

\* C7 as stated: the loop drops no blank input line, and every blank input line
\* with no blank neighbour in the input is still a blank line of the output.
C7_IsolatedBlankKept ==
    /\ pc \in {"loop", "done"} =>
           BlankLinesOf(cleaned_lines) = BlankLinesOf(SubSeq(lines, 1, i - 1))
    /\ pc = "done" =>
           Len(BlankLinesOf(split(result))) >= Cardinality(IsolatedBlanks(lines))

\* the number of non-blank lines before the k-th line of ls
NonBlankBefore(ls, k) == Cardinality({j \in 1..(k - 1) : ~IsBlank(ls[j])})

\* C7 amended: the loop drops no blank input line (in either state), and every
\* blank line with no blank neighbour among the lines the loop keeps is still
\* a blank line of the output, with the same kept text lines before it.
C7_BlankLinesKept ==
    /\ pc \in {"loop", "done"} =>
           BlankLinesOf(cleaned_lines) = BlankLinesOf(SubSeq(lines, 1, i - 1))
    /\ pc = "done" =>
           /\ Len(BlankLinesOf(split(result)))
                  >= Cardinality(IsolatedBlanks(cleaned_lines))
           /\ \A k \in IsolatedBlanks(cleaned_lines) :
                  \E j \in 1..Len(split(result)) :
                      /\ split(result)[j] = cleaned_lines[k]
                      /\ NonBlankBefore(split(result), j)
                             = NonBlankBefore(cleaned_lines, k)

\* C7 witness: a run that dropped a line and collapsed a run of blank lines,
\* and whose output still holds a blank line that stands alone among the
\* kept lines.
C7_Witness ==
    /\ pc = "done"
    /\ Len(cleaned_lines) < Len(lines)
    /\ result # join(cleaned_lines)
    /\ \E k \in IsolatedBlanks(cleaned_lines) :
           \E j \in 1..Len(split(result)) :
               /\ IsBlank(split(result)[j])
               /\ NonBlankBefore(split(result), j) = NonBlankBefore(cleaned_lines, k)

\* the resume lines as C8 lists them: a line starting with a prefix, a blank
\* line, or a line containing a code fence
C8_StatedResume(line) ==
    \/ \E n \in 1..Len(ResumePrefixes) : startswith(line, ResumePrefixes[n])
    \/ IsBlank(line)
    \/ Contains(line, Fence)

\* the resume lines of the amended C8: the prefix is looked for in the line
\* without its leading and trailing whitespace, that is from its first to
\* its last character that is not whitespace
C8_StrippedResume(line) ==
    \/ \E n \in 1..Len(ResumePrefixes) :
           LET p == ResumePrefixes[n]
               solid == {k \in 1..Len(line) : ~IsSpace(line[k])}
           IN  /\ solid # {}
               /\ \E k \in solid : MinOf(solid) + Len(p) - 1 <= k
               /\ StartsWithAt(line, p, MinOf(solid))
    \/ \A k \in 1..Len(line) : IsSpace(line[k])
    \/ Contains(line, Fence)

\* the Idle rules applied to a line: what is appended to the kept lines
C8_Emitted(line) ==
    LET t == SubComments(SubRussian(SubCyrillic(SubRU(SubEN(line))), 1))
    IN  IF strip(t) # <<>> \/ strip(line) = <<>> THEN <<t>> ELSE <<>>

\* text that the Idle rules leave as it is
C8_PlainText(t) ==
    /\ t # <<>>
    /\ ~IsSpace(t[1])
    /\ ~IsTrigger(t)
    /\ ~Contains(t, EN)
    /\ \A k \in 1..Len(t) : ~(t[k] >= CyrLo /\ t[k] <= CyrHi)
    /\ \A n \in 1..Len(CommentMarkers) : strip(t) # CommentMarkers[n]

\* the skip-region rules of C8 for one loop iteration, given the resume lines
C8_Rules(IsResumeLine(_)) ==
    LET line == lines[i]
        discarded == cleaned_lines' = cleaned_lines
    IN  /\ IsTrigger(line) => (discarded /\ skip_until_next_section')
        /\ (skip_until_next_section /\ ~IsTrigger(line) /\ ~IsResumeLine(line))
               => (discarded /\ skip_until_next_section')
        /\ (skip_until_next_section /\ ~IsTrigger(line) /\ IsResumeLine(line))
               => /\ ~skip_until_next_section'
                  /\ cleaned_lines' = cleaned_lines \o C8_Emitted(line)

\* "RU: ..." directly followed by "EN: <text>" yields exactly <text>
C8_Scenario ==
    (/\ Len(lines) = 2
     /\ startswith(lines[1], RU)
     /\ startswith(lines[2], EN \o <<32>>)
     /\ C8_PlainText(SubSeq(lines[2], 5, Len(lines[2]))))
        => result' = SubSeq(lines[2], 5, Len(lines[2]))

\* C8 as stated: a trigger line is discarded and starts Skipping; while
\* Skipping, lines are discarded until the first resume line (a line starting
\* with a resume prefix, a blank line, a line with a fence), which returns to
\* Idle and is emitted under the Idle rules; "RU: .." then "EN: t" yields t.
C8_SkipRegionAsStated ==
    [][ /\ (pc = "loop" /\ i' = i + 1) => C8_Rules(C8_StatedResume)
        /\ (pc = "loop" /\ pc' = "done") => C8_Scenario ]_vars

\* C8 amended: as stated, but a resume prefix is looked for in the line with
\* its leading and trailing whitespace stripped: an indented "EN:", "def ", ...
\* resumes, and "def " followed by whitespace only does not.
C8_SkipRegion ==
    [][ /\ (pc = "loop" /\ i' = i + 1) => C8_Rules(C8_StrippedResume)
        /\ (pc = "loop" /\ pc' = "done") => C8_Scenario ]_vars

\* C8 witness: a trigger line, then a skipped line, then an indented resume
\* line that is emitted with its prefix stripped.
C8_Witness ==
    /\ pc = "done"
    /\ Len(lines) = 3
    /\ IsTrigger(lines[1])
    /\ ~IsTrigger(lines[2]) /\ ~C8_StrippedResume(lines[2])
    /\ ~C8_StatedResume(lines[3]) /\ C8_StrippedResume(lines[3])
    /\ startswith(strip(lines[3]), EN)
    /\ result = <<120>>

-----------------------------------------------------------------------------
(* The pattern directory                                                   *)

MD == <<46, 109, 100>>      \* ".md"

\* File names and requested identifiers contain no path separator, so
\* os.path.join(pattern_dir, name) names the entry `name` of the directory.
ServerNames == {
    <<97, 46, 109, 100>>,                  \* "a.md"
    <<98, 46, 109, 100>>,                  \* "b.md"
    <<97, 46, 109, 100, 46, 109, 100>>,    \* "a.md.md"
    <<97, 46, 116, 120, 116>>              \* "a.txt"
    }

Identifiers == {
    <<97>>,                                \* "a"
    <<98>>,                                \* "b"
    <<97, 46, 109, 100>>,                  \* "a.md"
    <<122>>                                \* "z"   (never a file)
    }

\* what a file holds: UTF-8 text, text with CR LF line ends, or bytes that
\* cannot be read as UTF-8 text
ServerContents == {
    [text |-> <<120>>, readable |-> TRUE, writable |-> TRUE],             \* "x"
    [text |-> <<120, 13, 10, 121>>, readable |-> TRUE, writable |-> TRUE], \* "x\r\ny"
    [text |-> <<>>, readable |-> FALSE, writable |-> TRUE]
    }

\* the directories holding some of `names`, each file with one of `contents`
Directories(names, contents) == UNION {[S -> contents] : S \in SUBSET names}

\* the environment creates a file
AddFile(names, contents) ==
    \E n \in names \ DOMAIN files : \E c \in contents :
        /\ files' = [m \in DOMAIN files \cup {n} |-> IF m = n THEN c ELSE files[m]]
        /\ UNCHANGED <<cleanerVars, serverVars, batchVars>>

\* the environment deletes a file
RemoveFile ==
    \E n \in DOMAIN files :
        /\ files' = [m \in DOMAIN files \ {n} |-> files[m]]
        /\ UNCHANGED <<cleanerVars, serverVars, batchVars>>

\* open(name, 'r', encoding='utf-8').read(): text mode with universal
\* newlines turns "\r\n" and a lone "\r" into "\n": the "\n" that follows a
\* "\r" is dropped, and every "\r" is read as "\n"
UniversalNewlines(s) ==
    LET kept == {k \in 1..Len(s) : ~(s[k] = 10 /\ k > 1 /\ s[k - 1] = 13)}
        at(n) == CHOOSE k \in kept : Cardinality({j \in kept : j < k}) = n - 1
    IN  [n \in 1..Cardinality(kept) |-> IF s[at(n)] = 13 THEN 10 ELSE s[at(n)]]

\* a variant of read_text that returns the stored text as it is
read_raw(stored) == stored

\* f.read() on a file opened in text mode
read_text(stored) == UniversalNewlines(stored)

\* with open(filename, "r", encoding="utf-8") as f: f.read()
\* the text read, or the exception raised
OpenAndRead(fs, filename) ==
    IF filename \notin DOMAIN fs
    THEN [raised |-> TRUE, cause |-> "FileNotFoundError", text |-> <<>>]
    ELSE IF ~fs[filename].readable
    THEN [raised |-> TRUE, cause |-> "UnicodeDecodeError", text |-> <<>>]
    ELSE [raised |-> FALSE, cause |-> "", text |-> read_text(fs[filename].text)]

-----------------------------------------------------------------------------
(* server.py                                                               *)

\* str.replace(old, ''): every non-overlapping occurrence of old, left to right
RECURSIVE replace(_, _)
replace(s, old) ==
    LET k == Find(s, old)
    IN  IF k = 0 THEN s
        ELSE SubSeq(s, 1, k - 1) \o replace(SubSeq(s, k + Len(old), Len(s)), old)

\* str.capitalize() (line 175) title-cases the first character and lower-cases
\* the others with the full Unicode case mappings, which the tables below hold
\* for every code point U+0000 .. U+10FFFF.

\* the code points whose title-case form is one other code point, as
\* <<first, last, step, form of first>>: every step-th code point from first
\* to last maps to the code point at the same distance from `form of first`
TitleRanges == <<
    <<97, 122, 1, 65>>, <<181, 181, 1, 924>>, <<224, 246, 1, 192>>, <<248, 254, 1, 216>>,
    <<255, 255, 1, 376>>, <<257, 303, 2, 256>>, <<305, 305, 1, 73>>, <<307, 311, 2, 306>>,
    <<314, 328, 2, 313>>, <<331, 375, 2, 330>>, <<378, 382, 2, 377>>, <<383, 383, 1, 83>>,
    <<384, 384, 1, 579>>, <<387, 389, 2, 386>>, <<392, 392, 1, 391>>, <<396, 396, 1, 395>>,
    <<402, 402, 1, 401>>, <<405, 405, 1, 502>>, <<409, 409, 1, 408>>, <<410, 410, 1, 573>>,
    <<414, 414, 1, 544>>, <<417, 421, 2, 416>>, <<424, 424, 1, 423>>, <<429, 429, 1, 428>>,
    <<432, 432, 1, 431>>, <<436, 438, 2, 435>>, <<441, 441, 1, 440>>, <<445, 445, 1, 444>>,
    <<447, 447, 1, 503>>, <<452, 452, 1, 453>>, <<454, 454, 1, 453>>, <<455, 455, 1, 456>>,
    <<457, 457, 1, 456>>, <<458, 458, 1, 459>>, <<460, 476, 2, 459>>, <<477, 477, 1, 398>>,
    <<479, 495, 2, 478>>, <<497, 497, 1, 498>>, <<499, 501, 2, 498>>, <<505, 543, 2, 504>>,
    <<547, 563, 2, 546>>, <<572, 572, 1, 571>>, <<575, 576, 1, 11390>>, <<578, 578, 1, 577>>,
    <<583, 591, 2, 582>>, <<592, 592, 1, 11375>>, <<593, 593, 1, 11373>>, <<594, 594, 1, 11376>>,
    <<595, 595, 1, 385>>, <<596, 596, 1, 390>>, <<598, 599, 1, 393>>, <<601, 601, 1, 399>>,
    <<603, 603, 1, 400>>, <<604, 604, 1, 42923>>, <<608, 608, 1, 403>>, <<609, 609, 1, 42924>>,
    <<611, 611, 1, 404>>, <<613, 613, 1, 42893>>, <<614, 614, 1, 42922>>, <<616, 616, 1, 407>>,
    <<617, 617, 1, 406>>, <<618, 618, 1, 42926>>, <<619, 619, 1, 11362>>, <<620, 620, 1, 42925>>,
    <<623, 623, 1, 412>>, <<625, 625, 1, 11374>>, <<626, 626, 1, 413>>, <<629, 629, 1, 415>>,
    <<637, 637, 1, 11364>>, <<640, 640, 1, 422>>, <<642, 642, 1, 42949>>, <<643, 643, 1, 425>>,
    <<647, 647, 1, 42929>>, <<648, 648, 1, 430>>, <<649, 649, 1, 580>>, <<650, 651, 1, 433>>,
    <<652, 652, 1, 581>>, <<658, 658, 1, 439>>, <<669, 669, 1, 42930>>, <<670, 670, 1, 42928>>,
    <<837, 837, 1, 921>>, <<881, 883, 2, 880>>, <<887, 887, 1, 886>>, <<891, 893, 1, 1021>>,
    <<940, 940, 1, 902>>, <<941, 943, 1, 904>>, <<945, 961, 1, 913>>, <<962, 962, 1, 931>>,
    <<963, 971, 1, 931>>, <<972, 972, 1, 908>>, <<973, 974, 1, 910>>, <<976, 976, 1, 914>>,
    <<977, 977, 1, 920>>, <<981, 981, 1, 934>>, <<982, 982, 1, 928>>, <<983, 983, 1, 975>>,
    <<985, 1007, 2, 984>>, <<1008, 1008, 1, 922>>, <<1009, 1009, 1, 929>>, <<1010, 1010, 1, 1017>>,
    <<1011, 1011, 1, 895>>, <<1013, 1013, 1, 917>>, <<1016, 1016, 1, 1015>>, <<1019, 1019, 1, 1018>>,
    <<1072, 1103, 1, 1040>>, <<1104, 1119, 1, 1024>>, <<1121, 1153, 2, 1120>>, <<1163, 1215, 2, 1162>>,
    <<1218, 1230, 2, 1217>>, <<1231, 1231, 1, 1216>>, <<1233, 1327, 2, 1232>>, <<1377, 1414, 1, 1329>>,
    <<5112, 5117, 1, 5104>>, <<7296, 7296, 1, 1042>>, <<7297, 7297, 1, 1044>>, <<7298, 7298, 1, 1054>>,
    <<7299, 7300, 1, 1057>>, <<7301, 7301, 1, 1058>>, <<7302, 7302, 1, 1066>>, <<7303, 7303, 1, 1122>>,
    <<7304, 7304, 1, 42570>>, <<7545, 7545, 1, 42877>>, <<7549, 7549, 1, 11363>>, <<7566, 7566, 1, 42950>>,
    <<7681, 7829, 2, 7680>>, <<7835, 7835, 1, 7776>>, <<7841, 7935, 2, 7840>>, <<7936, 7943, 1, 7944>>,
    <<7952, 7957, 1, 7960>>, <<7968, 7975, 1, 7976>>, <<7984, 7991, 1, 7992>>, <<8000, 8005, 1, 8008>>,
    <<8017, 8023, 2, 8025>>, <<8032, 8039, 1, 8040>>, <<8048, 8049, 1, 8122>>, <<8050, 8053, 1, 8136>>,
    <<8054, 8055, 1, 8154>>, <<8056, 8057, 1, 8184>>, <<8058, 8059, 1, 8170>>, <<8060, 8061, 1, 8186>>,
    <<8064, 8071, 1, 8072>>, <<8080, 8087, 1, 8088>>, <<8096, 8103, 1, 8104>>, <<8112, 8113, 1, 8120>>,
    <<8115, 8115, 1, 8124>>, <<8126, 8126, 1, 921>>, <<8131, 8131, 1, 8140>>, <<8144, 8145, 1, 8152>>,
    <<8160, 8161, 1, 8168>>, <<8165, 8165, 1, 8172>>, <<8179, 8179, 1, 8188>>, <<8526, 8526, 1, 8498>>,
    <<8560, 8575, 1, 8544>>, <<8580, 8580, 1, 8579>>, <<9424, 9449, 1, 9398>>, <<11312, 11359, 1, 11264>>,
    <<11361, 11361, 1, 11360>>, <<11365, 11365, 1, 570>>, <<11366, 11366, 1, 574>>, <<11368, 11372, 2, 11367>>,
    <<11379, 11379, 1, 11378>>, <<11382, 11382, 1, 11381>>, <<11393, 11491, 2, 11392>>, <<11500, 11502, 2, 11499>>,
    <<11507, 11507, 1, 11506>>, <<11520, 11557, 1, 4256>>, <<11559, 11559, 1, 4295>>, <<11565, 11565, 1, 4301>>,
    <<42561, 42605, 2, 42560>>, <<42625, 42651, 2, 42624>>, <<42787, 42799, 2, 42786>>, <<42803, 42863, 2, 42802>>,
    <<42874, 42876, 2, 42873>>, <<42879, 42887, 2, 42878>>, <<42892, 42892, 1, 42891>>, <<42897, 42899, 2, 42896>>,
    <<42900, 42900, 1, 42948>>, <<42903, 42921, 2, 42902>>, <<42933, 42947, 2, 42932>>, <<42952, 42954, 2, 42951>>,
    <<42961, 42961, 1, 42960>>, <<42967, 42969, 2, 42966>>, <<42998, 42998, 1, 42997>>, <<43859, 43859, 1, 42931>>,
    <<43888, 43967, 1, 5024>>, <<65345, 65370, 1, 65313>>, <<66600, 66639, 1, 66560>>, <<66776, 66811, 1, 66736>>,
    <<66967, 66977, 1, 66928>>, <<66979, 66993, 1, 66940>>, <<66995, 67001, 1, 66956>>, <<67003, 67004, 1, 66964>>,
    <<68800, 68850, 1, 68736>>, <<71872, 71903, 1, 71840>>, <<93792, 93823, 1, 93760>>, <<125218, 125251, 1, 125184>> >>

\* the code points whose title-case form is several code points
TitleSpecial == <<
    <<223, <<83, 115>>>>, <<329, <<700, 78>>>>, <<496, <<74, 780>>>>,
    <<912, <<921, 776, 769>>>>, <<944, <<933, 776, 769>>>>, <<1415, <<1333, 1410>>>>,
    <<7830, <<72, 817>>>>, <<7831, <<84, 776>>>>, <<7832, <<87, 778>>>>,
    <<7833, <<89, 778>>>>, <<7834, <<65, 702>>>>, <<8016, <<933, 787>>>>,
    <<8018, <<933, 787, 768>>>>, <<8020, <<933, 787, 769>>>>, <<8022, <<933, 787, 834>>>>,
    <<8114, <<8122, 837>>>>, <<8116, <<902, 837>>>>, <<8118, <<913, 834>>>>,
    <<8119, <<913, 834, 837>>>>, <<8130, <<8138, 837>>>>, <<8132, <<905, 837>>>>,
    <<8134, <<919, 834>>>>, <<8135, <<919, 834, 837>>>>, <<8146, <<921, 776, 768>>>>,
    <<8147, <<921, 776, 769>>>>, <<8150, <<921, 834>>>>, <<8151, <<921, 776, 834>>>>,
    <<8162, <<933, 776, 768>>>>, <<8163, <<933, 776, 769>>>>, <<8164, <<929, 787>>>>,
    <<8166, <<933, 834>>>>, <<8167, <<933, 776, 834>>>>, <<8178, <<8186, 837>>>>,
    <<8180, <<911, 837>>>>, <<8182, <<937, 834>>>>, <<8183, <<937, 834, 837>>>>,
    <<64256, <<70, 102>>>>, <<64257, <<70, 105>>>>, <<64258, <<70, 108>>>>,
    <<64259, <<70, 102, 105>>>>, <<64260, <<70, 102, 108>>>>, <<64261, <<83, 116>>>>,
    <<64262, <<83, 116>>>>, <<64275, <<1348, 1398>>>>, <<64276, <<1348, 1381>>>>,
    <<64277, <<1348, 1387>>>>, <<64278, <<1358, 1398>>>>, <<64279, <<1348, 1389>>>> >>

\* the code points whose lower-case form is one other code point, in the
\* layout of TitleRanges
LowerRanges == <<
    <<65, 90, 1, 97>>, <<192, 214, 1, 224>>, <<216, 222, 1, 248>>, <<256, 302, 2, 257>>,
    <<306, 310, 2, 307>>, <<313, 327, 2, 314>>, <<330, 374, 2, 331>>, <<376, 376, 1, 255>>,
    <<377, 381, 2, 378>>, <<385, 385, 1, 595>>, <<386, 388, 2, 387>>, <<390, 390, 1, 596>>,
    <<391, 391, 1, 392>>, <<393, 394, 1, 598>>, <<395, 395, 1, 396>>, <<398, 398, 1, 477>>,
    <<399, 399, 1, 601>>, <<400, 400, 1, 603>>, <<401, 401, 1, 402>>, <<403, 403, 1, 608>>,
    <<404, 404, 1, 611>>, <<406, 406, 1, 617>>, <<407, 407, 1, 616>>, <<408, 408, 1, 409>>,
    <<412, 412, 1, 623>>, <<413, 413, 1, 626>>, <<415, 415, 1, 629>>, <<416, 420, 2, 417>>,
    <<422, 422, 1, 640>>, <<423, 423, 1, 424>>, <<425, 425, 1, 643>>, <<428, 428, 1, 429>>,
    <<430, 430, 1, 648>>, <<431, 431, 1, 432>>, <<433, 434, 1, 650>>, <<435, 437, 2, 436>>,
    <<439, 439, 1, 658>>, <<440, 440, 1, 441>>, <<444, 444, 1, 445>>, <<452, 452, 1, 454>>,
    <<453, 453, 1, 454>>, <<455, 455, 1, 457>>, <<456, 456, 1, 457>>, <<458, 458, 1, 460>>,
    <<459, 475, 2, 460>>, <<478, 494, 2, 479>>, <<497, 497, 1, 499>>, <<498, 500, 2, 499>>,
    <<502, 502, 1, 405>>, <<503, 503, 1, 447>>, <<504, 542, 2, 505>>, <<544, 544, 1, 414>>,
    <<546, 562, 2, 547>>, <<570, 570, 1, 11365>>, <<571, 571, 1, 572>>, <<573, 573, 1, 410>>,
    <<574, 574, 1, 11366>>, <<577, 577, 1, 578>>, <<579, 579, 1, 384>>, <<580, 580, 1, 649>>,
    <<581, 581, 1, 652>>, <<582, 590, 2, 583>>, <<880, 882, 2, 881>>, <<886, 886, 1, 887>>,
    <<895, 895, 1, 1011>>, <<902, 902, 1, 940>>, <<904, 906, 1, 941>>, <<908, 908, 1, 972>>,
    <<910, 911, 1, 973>>, <<913, 929, 1, 945>>, <<931, 939, 1, 963>>, <<975, 975, 1, 983>>,
    <<984, 1006, 2, 985>>, <<1012, 1012, 1, 952>>, <<1015, 1015, 1, 1016>>, <<1017, 1017, 1, 1010>>,
    <<1018, 1018, 1, 1019>>, <<1021, 1023, 1, 891>>, <<1024, 1039, 1, 1104>>, <<1040, 1071, 1, 1072>>,
    <<1120, 1152, 2, 1121>>, <<1162, 1214, 2, 1163>>, <<1216, 1216, 1, 1231>>, <<1217, 1229, 2, 1218>>,
    <<1232, 1326, 2, 1233>>, <<1329, 1366, 1, 1377>>, <<4256, 4293, 1, 11520>>, <<4295, 4295, 1, 11559>>,
    <<4301, 4301, 1, 11565>>, <<5024, 5103, 1, 43888>>, <<5104, 5109, 1, 5112>>, <<7312, 7354, 1, 4304>>,
    <<7357, 7359, 1, 4349>>, <<7680, 7828, 2, 7681>>, <<7838, 7838, 1, 223>>, <<7840, 7934, 2, 7841>>,
    <<7944, 7951, 1, 7936>>, <<7960, 7965, 1, 7952>>, <<7976, 7983, 1, 7968>>, <<7992, 7999, 1, 7984>>,
    <<8008, 8013, 1, 8000>>, <<8025, 8031, 2, 8017>>, <<8040, 8047, 1, 8032>>, <<8072, 8079, 1, 8064>>,
    <<8088, 8095, 1, 8080>>, <<8104, 8111, 1, 8096>>, <<8120, 8121, 1, 8112>>, <<8122, 8123, 1, 8048>>,
    <<8124, 8124, 1, 8115>>, <<8136, 8139, 1, 8050>>, <<8140, 8140, 1, 8131>>, <<8152, 8153, 1, 8144>>,
    <<8154, 8155, 1, 8054>>, <<8168, 8169, 1, 8160>>, <<8170, 8171, 1, 8058>>, <<8172, 8172, 1, 8165>>,
    <<8184, 8185, 1, 8056>>, <<8186, 8187, 1, 8060>>, <<8188, 8188, 1, 8179>>, <<8486, 8486, 1, 969>>,
    <<8490, 8490, 1, 107>>, <<8491, 8491, 1, 229>>, <<8498, 8498, 1, 8526>>, <<8544, 8559, 1, 8560>>,
    <<8579, 8579, 1, 8580>>, <<9398, 9423, 1, 9424>>, <<11264, 11311, 1, 11312>>, <<11360, 11360, 1, 11361>>,
    <<11362, 11362, 1, 619>>, <<11363, 11363, 1, 7549>>, <<11364, 11364, 1, 637>>, <<11367, 11371, 2, 11368>>,
    <<11373, 11373, 1, 593>>, <<11374, 11374, 1, 625>>, <<11375, 11375, 1, 592>>, <<11376, 11376, 1, 594>>,
    <<11378, 11378, 1, 11379>>, <<11381, 11381, 1, 11382>>, <<11390, 11391, 1, 575>>, <<11392, 11490, 2, 11393>>,
    <<11499, 11501, 2, 11500>>, <<11506, 11506, 1, 11507>>, <<42560, 42604, 2, 42561>>, <<42624, 42650, 2, 42625>>,
    <<42786, 42798, 2, 42787>>, <<42802, 42862, 2, 42803>>, <<42873, 42875, 2, 42874>>, <<42877, 42877, 1, 7545>>,
    <<42878, 42886, 2, 42879>>, <<42891, 42891, 1, 42892>>, <<42893, 42893, 1, 613>>, <<42896, 42898, 2, 42897>>,
    <<42902, 42920, 2, 42903>>, <<42922, 42922, 1, 614>>, <<42923, 42923, 1, 604>>, <<42924, 42924, 1, 609>>,
    <<42925, 42925, 1, 620>>, <<42926, 42926, 1, 618>>, <<42928, 42928, 1, 670>>, <<42929, 42929, 1, 647>>,
    <<42930, 42930, 1, 669>>, <<42931, 42931, 1, 43859>>, <<42932, 42946, 2, 42933>>, <<42948, 42948, 1, 42900>>,
    <<42949, 42949, 1, 642>>, <<42950, 42950, 1, 7566>>, <<42951, 42953, 2, 42952>>, <<42960, 42960, 1, 42961>>,
    <<42966, 42968, 2, 42967>>, <<42997, 42997, 1, 42998>>, <<65313, 65338, 1, 65345>>, <<66560, 66599, 1, 66600>>,
    <<66736, 66771, 1, 66776>>, <<66928, 66938, 1, 66967>>, <<66940, 66954, 1, 66979>>, <<66956, 66962, 1, 66995>>,
    <<66964, 66965, 1, 67003>>, <<68736, 68786, 1, 68800>>, <<71840, 71871, 1, 71872>>, <<93760, 93791, 1, 93792>>,
    <<125184, 125217, 1, 125218>> >>

\* the code points whose lower-case form is several code points
LowerSpecial == <<
    <<304, <<105, 775>>>> >>

\* the cased code points (Lowercase, Uppercase or Lt), as <<first, last>>
CasedRanges == <<
    <<65, 90>>, <<97, 122>>, <<170, 170>>, <<181, 181>>, <<186, 186>>, <<192, 214>>,
    <<216, 246>>, <<248, 442>>, <<444, 447>>, <<452, 659>>, <<661, 696>>, <<704, 705>>,
    <<736, 740>>, <<837, 837>>, <<880, 883>>, <<886, 887>>, <<890, 893>>, <<895, 895>>,
    <<902, 902>>, <<904, 906>>, <<908, 908>>, <<910, 929>>, <<931, 1013>>, <<1015, 1153>>,
    <<1162, 1327>>, <<1329, 1366>>, <<1376, 1416>>, <<4256, 4293>>, <<4295, 4295>>, <<4301, 4301>>,
    <<4304, 4346>>, <<4349, 4351>>, <<5024, 5109>>, <<5112, 5117>>, <<7296, 7304>>, <<7312, 7354>>,
    <<7357, 7359>>, <<7424, 7615>>, <<7680, 7957>>, <<7960, 7965>>, <<7968, 8005>>, <<8008, 8013>>,
    <<8016, 8023>>, <<8025, 8025>>, <<8027, 8027>>, <<8029, 8029>>, <<8031, 8061>>, <<8064, 8116>>,
    <<8118, 8124>>, <<8126, 8126>>, <<8130, 8132>>, <<8134, 8140>>, <<8144, 8147>>, <<8150, 8155>>,
    <<8160, 8172>>, <<8178, 8180>>, <<8182, 8188>>, <<8305, 8305>>, <<8319, 8319>>, <<8336, 8348>>,
    <<8450, 8450>>, <<8455, 8455>>, <<8458, 8467>>, <<8469, 8469>>, <<8473, 8477>>, <<8484, 8484>>,
    <<8486, 8486>>, <<8488, 8488>>, <<8490, 8493>>, <<8495, 8500>>, <<8505, 8505>>, <<8508, 8511>>,
    <<8517, 8521>>, <<8526, 8526>>, <<8544, 8575>>, <<8579, 8580>>, <<9398, 9449>>, <<11264, 11492>>,
    <<11499, 11502>>, <<11506, 11507>>, <<11520, 11557>>, <<11559, 11559>>, <<11565, 11565>>, <<42560, 42605>>,
    <<42624, 42653>>, <<42786, 42887>>, <<42891, 42894>>, <<42896, 42954>>, <<42960, 42961>>, <<42963, 42963>>,
    <<42965, 42969>>, <<42997, 42998>>, <<43000, 43002>>, <<43824, 43866>>, <<43868, 43880>>, <<43888, 43967>>,
    <<64256, 64262>>, <<64275, 64279>>, <<65313, 65338>>, <<65345, 65370>>, <<66560, 66639>>, <<66736, 66771>>,
    <<66776, 66811>>, <<66928, 66938>>, <<66940, 66954>>, <<66956, 66962>>, <<66964, 66965>>, <<66967, 66977>>,
    <<66979, 66993>>, <<66995, 67001>>, <<67003, 67004>>, <<67456, 67456>>, <<67459, 67461>>, <<67463, 67504>>,
    <<67506, 67514>>, <<68736, 68786>>, <<68800, 68850>>, <<71840, 71903>>, <<93760, 93823>>, <<119808, 119892>>,
    <<119894, 119964>>, <<119966, 119967>>, <<119970, 119970>>, <<119973, 119974>>, <<119977, 119980>>, <<119982, 119993>>,
    <<119995, 119995>>, <<119997, 120003>>, <<120005, 120069>>, <<120071, 120074>>, <<120077, 120084>>, <<120086, 120092>>,
    <<120094, 120121>>, <<120123, 120126>>, <<120128, 120132>>, <<120134, 120134>>, <<120138, 120144>>, <<120146, 120485>>,
    <<120488, 120512>>, <<120514, 120538>>, <<120540, 120570>>, <<120572, 120596>>, <<120598, 120628>>, <<120630, 120654>>,
    <<120656, 120686>>, <<120688, 120712>>, <<120714, 120744>>, <<120746, 120770>>, <<120772, 120779>>, <<122624, 122633>>,
    <<122635, 122654>>, <<125184, 125251>>, <<127280, 127305>>, <<127312, 127337>>, <<127344, 127369>> >>

\* the case-ignorable code points, as <<first, last>>
CaseIgnorableRanges == <<
    <<39, 39>>, <<46, 46>>, <<58, 58>>, <<94, 94>>, <<96, 96>>, <<168, 168>>,
    <<173, 173>>, <<175, 175>>, <<180, 180>>, <<183, 184>>, <<688, 879>>, <<884, 885>>,
    <<890, 890>>, <<900, 901>>, <<903, 903>>, <<1155, 1161>>, <<1369, 1369>>, <<1375, 1375>>,
    <<1425, 1469>>, <<1471, 1471>>, <<1473, 1474>>, <<1476, 1477>>, <<1479, 1479>>, <<1524, 1524>>,
    <<1536, 1541>>, <<1552, 1562>>, <<1564, 1564>>, <<1600, 1600>>, <<1611, 1631>>, <<1648, 1648>>,
    <<1750, 1757>>, <<1759, 1768>>, <<1770, 1773>>, <<1807, 1807>>, <<1809, 1809>>, <<1840, 1866>>,
    <<1958, 1968>>, <<2027, 2037>>, <<2042, 2042>>, <<2045, 2045>>, <<2070, 2093>>, <<2137, 2139>>,
    <<2184, 2184>>, <<2192, 2193>>, <<2200, 2207>>, <<2249, 2306>>, <<2362, 2362>>, <<2364, 2364>>,
    <<2369, 2376>>, <<2381, 2381>>, <<2385, 2391>>, <<2402, 2403>>, <<2417, 2417>>, <<2433, 2433>>,
    <<2492, 2492>>, <<2497, 2500>>, <<2509, 2509>>, <<2530, 2531>>, <<2558, 2558>>, <<2561, 2562>>,
    <<2620, 2620>>, <<2625, 2626>>, <<2631, 2632>>, <<2635, 2637>>, <<2641, 2641>>, <<2672, 2673>>,
    <<2677, 2677>>, <<2689, 2690>>, <<2748, 2748>>, <<2753, 2757>>, <<2759, 2760>>, <<2765, 2765>>,
    <<2786, 2787>>, <<2810, 2815>>, <<2817, 2817>>, <<2876, 2876>>, <<2879, 2879>>, <<2881, 2884>>,
    <<2893, 2893>>, <<2901, 2902>>, <<2914, 2915>>, <<2946, 2946>>, <<3008, 3008>>, <<3021, 3021>>,
    <<3072, 3072>>, <<3076, 3076>>, <<3132, 3132>>, <<3134, 3136>>, <<3142, 3144>>, <<3146, 3149>>,
    <<3157, 3158>>, <<3170, 3171>>, <<3201, 3201>>, <<3260, 3260>>, <<3263, 3263>>, <<3270, 3270>>,
    <<3276, 3277>>, <<3298, 3299>>, <<3328, 3329>>, <<3387, 3388>>, <<3393, 3396>>, <<3405, 3405>>,
    <<3426, 3427>>, <<3457, 3457>>, <<3530, 3530>>, <<3538, 3540>>, <<3542, 3542>>, <<3633, 3633>>,
    <<3636, 3642>>, <<3654, 3662>>, <<3761, 3761>>, <<3764, 3772>>, <<3782, 3782>>, <<3784, 3789>>,
    <<3864, 3865>>, <<3893, 3893>>, <<3895, 3895>>, <<3897, 3897>>, <<3953, 3966>>, <<3968, 3972>>,
    <<3974, 3975>>, <<3981, 3991>>, <<3993, 4028>>, <<4038, 4038>>, <<4141, 4144>>, <<4146, 4151>>,
    <<4153, 4154>>, <<4157, 4158>>, <<4184, 4185>>, <<4190, 4192>>, <<4209, 4212>>, <<4226, 4226>>,
    <<4229, 4230>>, <<4237, 4237>>, <<4253, 4253>>, <<4348, 4348>>, <<4957, 4959>>, <<5906, 5908>>,
    <<5938, 5939>>, <<5970, 5971>>, <<6002, 6003>>, <<6068, 6069>>, <<6071, 6077>>, <<6086, 6086>>,
    <<6089, 6099>>, <<6103, 6103>>, <<6109, 6109>>, <<6155, 6159>>, <<6211, 6211>>, <<6277, 6278>>,
    <<6313, 6313>>, <<6432, 6434>>, <<6439, 6440>>, <<6450, 6450>>, <<6457, 6459>>, <<6679, 6680>>,
    <<6683, 6683>>, <<6742, 6742>>, <<6744, 6750>>, <<6752, 6752>>, <<6754, 6754>>, <<6757, 6764>>,
    <<6771, 6780>>, <<6783, 6783>>, <<6823, 6823>>, <<6832, 6862>>, <<6912, 6915>>, <<6964, 6964>>,
    <<6966, 6970>>, <<6972, 6972>>, <<6978, 6978>>, <<7019, 7027>>, <<7040, 7041>>, <<7074, 7077>>,
    <<7080, 7081>>, <<7083, 7085>>, <<7142, 7142>>, <<7144, 7145>>, <<7149, 7149>>, <<7151, 7153>>,
    <<7212, 7219>>, <<7222, 7223>>, <<7288, 7293>>, <<7376, 7378>>, <<7380, 7392>>, <<7394, 7400>>,
    <<7405, 7405>>, <<7412, 7412>>, <<7416, 7417>>, <<7468, 7530>>, <<7544, 7544>>, <<7579, 7679>>,
    <<8125, 8125>>, <<8127, 8129>>, <<8141, 8143>>, <<8157, 8159>>, <<8173, 8175>>, <<8189, 8190>>,
    <<8203, 8207>>, <<8216, 8217>>, <<8228, 8228>>, <<8231, 8231>>, <<8234, 8238>>, <<8288, 8292>>,
    <<8294, 8303>>, <<8305, 8305>>, <<8319, 8319>>, <<8336, 8348>>, <<8400, 8432>>, <<11388, 11389>>,
    <<11503, 11505>>, <<11631, 11631>>, <<11647, 11647>>, <<11744, 11775>>, <<11823, 11823>>, <<12293, 12293>>,
    <<12330, 12333>>, <<12337, 12341>>, <<12347, 12347>>, <<12441, 12446>>, <<12540, 12542>>, <<40981, 40981>>,
    <<42232, 42237>>, <<42508, 42508>>, <<42607, 42610>>, <<42612, 42621>>, <<42623, 42623>>, <<42652, 42655>>,
    <<42736, 42737>>, <<42752, 42785>>, <<42864, 42864>>, <<42888, 42890>>, <<42994, 42996>>, <<43000, 43001>>,
    <<43010, 43010>>, <<43014, 43014>>, <<43019, 43019>>, <<43045, 43046>>, <<43052, 43052>>, <<43204, 43205>>,
    <<43232, 43249>>, <<43263, 43263>>, <<43302, 43309>>, <<43335, 43345>>, <<43392, 43394>>, <<43443, 43443>>,
    <<43446, 43449>>, <<43452, 43453>>, <<43471, 43471>>, <<43493, 43494>>, <<43561, 43566>>, <<43569, 43570>>,
    <<43573, 43574>>, <<43587, 43587>>, <<43596, 43596>>, <<43632, 43632>>, <<43644, 43644>>, <<43696, 43696>>,
    <<43698, 43700>>, <<43703, 43704>>, <<43710, 43711>>, <<43713, 43713>>, <<43741, 43741>>, <<43756, 43757>>,
    <<43763, 43764>>, <<43766, 43766>>, <<43867, 43871>>, <<43881, 43883>>, <<44005, 44005>>, <<44008, 44008>>,
    <<44013, 44013>>, <<64286, 64286>>, <<64434, 64450>>, <<65024, 65039>>, <<65043, 65043>>, <<65056, 65071>>,
    <<65106, 65106>>, <<65109, 65109>>, <<65279, 65279>>, <<65287, 65287>>, <<65294, 65294>>, <<65306, 65306>>,
    <<65342, 65342>>, <<65344, 65344>>, <<65392, 65392>>, <<65438, 65439>>, <<65507, 65507>>, <<65529, 65531>>,
    <<66045, 66045>>, <<66272, 66272>>, <<66422, 66426>>, <<67456, 67461>>, <<67463, 67504>>, <<67506, 67514>>,
    <<68097, 68099>>, <<68101, 68102>>, <<68108, 68111>>, <<68152, 68154>>, <<68159, 68159>>, <<68325, 68326>>,
    <<68900, 68903>>, <<69291, 69292>>, <<69446, 69456>>, <<69506, 69509>>, <<69633, 69633>>, <<69688, 69702>>,
    <<69744, 69744>>, <<69747, 69748>>, <<69759, 69761>>, <<69811, 69814>>, <<69817, 69818>>, <<69821, 69821>>,
    <<69826, 69826>>, <<69837, 69837>>, <<69888, 69890>>, <<69927, 69931>>, <<69933, 69940>>, <<70003, 70003>>,
    <<70016, 70017>>, <<70070, 70078>>, <<70089, 70092>>, <<70095, 70095>>, <<70191, 70193>>, <<70196, 70196>>,
    <<70198, 70199>>, <<70206, 70206>>, <<70367, 70367>>, <<70371, 70378>>, <<70400, 70401>>, <<70459, 70460>>,
    <<70464, 70464>>, <<70502, 70508>>, <<70512, 70516>>, <<70712, 70719>>, <<70722, 70724>>, <<70726, 70726>>,
    <<70750, 70750>>, <<70835, 70840>>, <<70842, 70842>>, <<70847, 70848>>, <<70850, 70851>>, <<71090, 71093>>,
    <<71100, 71101>>, <<71103, 71104>>, <<71132, 71133>>, <<71219, 71226>>, <<71229, 71229>>, <<71231, 71232>>,
    <<71339, 71339>>, <<71341, 71341>>, <<71344, 71349>>, <<71351, 71351>>, <<71453, 71455>>, <<71458, 71461>>,
    <<71463, 71467>>, <<71727, 71735>>, <<71737, 71738>>, <<71995, 71996>>, <<71998, 71998>>, <<72003, 72003>>,
    <<72148, 72151>>, <<72154, 72155>>, <<72160, 72160>>, <<72193, 72202>>, <<72243, 72248>>, <<72251, 72254>>,
    <<72263, 72263>>, <<72273, 72278>>, <<72281, 72283>>, <<72330, 72342>>, <<72344, 72345>>, <<72752, 72758>>,
    <<72760, 72765>>, <<72767, 72767>>, <<72850, 72871>>, <<72874, 72880>>, <<72882, 72883>>, <<72885, 72886>>,
    <<73009, 73014>>, <<73018, 73018>>, <<73020, 73021>>, <<73023, 73029>>, <<73031, 73031>>, <<73104, 73105>>,
    <<73109, 73109>>, <<73111, 73111>>, <<73459, 73460>>, <<78896, 78904>>, <<92912, 92916>>, <<92976, 92982>>,
    <<92992, 92995>>, <<94031, 94031>>, <<94095, 94111>>, <<94176, 94177>>, <<94179, 94180>>, <<110576, 110579>>,
    <<110581, 110587>>, <<110589, 110590>>, <<113821, 113822>>, <<113824, 113827>>, <<118528, 118573>>, <<118576, 118598>>,
    <<119143, 119145>>, <<119155, 119170>>, <<119173, 119179>>, <<119210, 119213>>, <<119362, 119364>>, <<121344, 121398>>,
    <<121403, 121452>>, <<121461, 121461>>, <<121476, 121476>>, <<121499, 121503>>, <<121505, 121519>>, <<122880, 122886>>,
    <<122888, 122904>>, <<122907, 122913>>, <<122915, 122916>>, <<122918, 122922>>, <<123184, 123197>>, <<123566, 123566>>,
    <<123628, 123631>>, <<125136, 125142>>, <<125252, 125259>>, <<127995, 127999>>, <<917505, 917505>>, <<917536, 917631>>,
    <<917760, 917999>> >>

\* c is one of the code points of the run r of TitleRanges or LowerRanges
InRun(c, r) == c >= r[1] /\ c <= r[2] /\ (c - r[1]) % r[3] = 0

\* the form of c under a mapping given by its runs and its special cases;
\* a code point in neither is its own form
MapCase(c, ranges, special) ==
    IF \E n \in 1..Len(special) : special[n][1] = c
    THEN special[CHOOSE n \in 1..Len(special) : special[n][1] = c][2]
    ELSE IF \E n \in 1..Len(ranges) : InRun(c, ranges[n])
    THEN LET r == ranges[CHOOSE n \in 1..Len(ranges) : InRun(c, ranges[n])]
         IN  <<r[4] + (c - r[1])>>
    ELSE <<c>>

\* the title-case form of a code point, as a sequence of code points
ToTitleFull(c) == MapCase(c, TitleRanges, TitleSpecial)

\* the lower-case form of a code point, as a sequence of code points
ToLowerFull(c) == MapCase(c, LowerRanges, LowerSpecial)

IsCased(c) ==
    \E n \in 1..Len(CasedRanges) : c >= CasedRanges[n][1] /\ c <= CasedRanges[n][2]

IsCaseIgnorable(c) ==
    \E n \in 1..Len(CaseIgnorableRanges) :
        c >= CaseIgnorableRanges[n][1] /\ c <= CaseIgnorableRanges[n][2]

\* the lower-case form of the capital sigma at s[k]: the final sigma U+03C2
\* when, case-ignorable characters apart, a cased letter comes before it and
\* none comes after it, else U+03C3
handle_capital_sigma(s, k) ==
    LET before == {j \in 1..(k - 1) : ~IsCaseIgnorable(s[j])}
        after == {j \in (k + 1)..Len(s) : ~IsCaseIgnorable(s[j])}
        final == /\ before # {}
                 /\ IsCased(s[CHOOSE m \in before : \A n \in before : n <= m])
                 /\ after = {} \/ ~IsCased(s[MinOf(after)])
    IN  IF final THEN 962 ELSE 963

\* the lower-case form of the character s[k] of s
lower_ucs4(s, k) ==
    IF s[k] = 931 THEN <<handle_capital_sigma(s, k)>> ELSE ToLowerFull(s[k])

\* the lower-case forms of s[k], s[k+1], ... one after the other
RECURSIVE LowerFrom(_, _)
LowerFrom(s, k) ==
    IF k > Len(s) THEN <<>> ELSE lower_ucs4(s, k) \o LowerFrom(s, k + 1)

\* str.capitalize()
capitalize(s) == IF s = <<>> THEN s ELSE ToTitleFull(s[1]) \o LowerFrom(s, 2)

\* [f.replace('.md', '') for f in os.listdir(dir) if f.endswith('.md')]
\* os.listdir gives the names in arbitrary order: the list is kept up to order,
\* as the number of times each identifier occurs in it.
ListPatterns(fs) ==
    LET names == {f \in DOMAIN fs : endswith(f, MD)}
        ids == {replace(f, MD) : f \in names}
    IN  [id \in ids |-> Cardinality({f \in names : replace(f, MD) = id})]

\* a variant of ContextPatterns that lists the directory at the request
DirectoryPatterns == IF dir_listable THEN ListPatterns(files) ELSE NoFiles

\* app_ctx.patterns as list_patterns reads it (lines 166-168)
ContextPatterns == patterns

\* the text list_patterns returns, one entry per listed pattern:
\* "- [{pattern.capitalize()}](design-pattern://{pattern})"
RenderList(pats) ==
    IF DOMAIN pats = {}
    THEN [op |-> "list", outcome |-> "none_available"]
    ELSE [op |-> "list", outcome |-> "list",
          entries |-> [id \in DOMAIN pats |->
                          [label |-> capitalize(id), uri |-> id, times |-> pats[id]]]]

\* a variant of ReadOutcome with no except clause
ReadOutcomeUncaught(op, p, r) ==
    IF r.raised
    THEN [op |-> op, outcome |-> "raised", pattern |-> p, cause |-> r.cause, text |-> <<>>]
    ELSE [op |-> op, outcome |-> "content", pattern |-> p, cause |-> "", text |-> r.text]

\* try: ... return text / except Exception as e: return 'Error reading ...'
ReadOutcome(op, p, r) ==
    IF r.raised
    THEN [op |-> op, outcome |-> "error", pattern |-> p, cause |-> r.cause, text |-> <<>>]
    ELSE [op |-> op, outcome |-> "content", pattern |-> p, cause |-> "", text |-> r.text]

InitServer ==
    /\ files \in Directories(ServerNames, ServerContents)
    /\ dir_listable \in BOOLEAN
    /\ started = FALSE
    /\ patterns = NoFiles
    /\ req = NoReq
    /\ resp = NoResp
    /\ CleanerOff
    /\ BatchOff

\* app_lifespan, up to the yield
app_lifespan ==
    /\ ~started
    /\ started' = TRUE
    /\ patterns' = IF dir_listable THEN ListPatterns(files) ELSE NoFiles
    /\ UNCHANGED <<cleanerVars, files, dir_listable, req, resp, batchVars>>

\* a retrieval up to its os.path.exists(filename): the not-found result, or on
\* to the open
ExistsStep(op, p) ==
    /\ started
    /\ req = NoReq /\ resp = NoResp
    /\ IF (p \o MD) \notin DOMAIN files
       THEN /\ resp' = [op |-> op, outcome |-> "not_found", pattern |-> p,
                        cause |-> "", text |-> <<>>]
            /\ req' = req
       ELSE /\ req' = [op |-> op, pattern |-> p]
            /\ resp' = resp
    /\ UNCHANGED <<cleanerVars, files, dir_listable, started, patterns, batchVars>>

\* the rest of a retrieval: the try block and its except clause
ReadStep(op) ==
    /\ req # NoReq
    /\ req.op = op
    /\ resp' = ReadOutcome(op, req.pattern, OpenAndRead(files, req.pattern \o MD))
    /\ req' = NoReq
    /\ UNCHANGED <<cleanerVars, files, dir_listable, started, patterns, batchVars>>

\* get_design_pattern, lines 106-117
get_design_pattern_exists == \E p \in Identifiers : ExistsStep("tool", p)
\* get_design_pattern, lines 119-126
get_design_pattern_read == ReadStep("tool")
\* design_pattern_resource, lines 140-148
design_pattern_resource_exists == \E p \in Identifiers : ExistsStep("resource", p)
\* design_pattern_resource, lines 150-155
design_pattern_resource_read == ReadStep("resource")

\* list_patterns
list_patterns ==
    /\ started
    /\ req = NoReq /\ resp = NoResp
    /\ resp' = RenderList(ContextPatterns)
    /\ UNCHANGED <<cleanerVars, files, dir_listable, started, patterns, req, batchVars>>

\* the caller takes the returned value
TakeResponse ==
    /\ resp # NoResp
    /\ resp' = NoResp
    /\ UNCHANGED <<cleanerVars, files, dir_listable, started, patterns, req, batchVars>>

NextServer ==
    \/ app_lifespan
    \/ get_design_pattern_exists
    \/ get_design_pattern_read
    \/ design_pattern_resource_exists
    \/ design_pattern_resource_read
    \/ list_patterns
    \/ TakeResponse
    \/ AddFile(ServerNames, ServerContents)
    \/ RemoveFile

\* the server on a directory that changes while it runs
SpecServer == InitServer /\ [][NextServer]_vars

-----------------------------------------------------------------------------
(* Properties of the server                                                *)

\* the step in which app_lifespan lists the directory
StartupStep == ~started /\ started'

\* a step in which a retrieval returns its value
RetrievalReturns == resp = NoResp /\ resp' # NoResp /\ resp'.op \in {"tool", "resource"}

\* a step in which list_patterns returns its value
ListingReturns == resp = NoResp /\ resp' # NoResp /\ resp'.op = "list"

\* a step of the serving path (not of the environment)
ServingStep == started' # started \/ req' # req \/ resp' # resp

\* the file names ending in ".md", that suffix cut off
SuffixStripped(fs) ==
    {SubSeq(f, 1, Len(f) - Len(MD)) : f \in {g \in DOMAIN fs : endswith(g, MD)}}

\* C3: the listing made from a directory is exactly the set of its file names
\* ending in ".md" with that suffix stripped, each identifier once.
C3_ListingExact ==
    [][ (StartupStep /\ dir_listable) =>
            /\ DOMAIN patterns' = SuffixStripped(files)
            /\ \A id \in DOMAIN patterns' : patterns'[id] = 1 ]_vars

\* C4 as stated: a retrieval of an identifier whose file is absent when it runs
\* (at the existence check, or at the open after the file disappeared) returns
\* the not-found result and does not raise.
C4_AbsentIsNotFound ==
    [][ (RetrievalReturns /\ (resp'.pattern \o MD) \notin DOMAIN files) =>
            resp'.outcome = "not_found" ]_vars

\* C4 amended: a retrieval of an identifier whose file is absent at the
\* existence check returns the not-found result; when the file disappears
\* between the check and the open it returns the error result carrying the
\* FileNotFoundError; no retrieval raises.
C4_AbsentNeverRaises ==
    [][ RetrievalReturns =>
            /\ resp'.outcome # "raised"
            /\ (resp'.pattern \o MD) \notin DOMAIN files =>
                   IF req = NoReq
                   THEN resp'.outcome = "not_found"
                   ELSE resp'.outcome = "error" /\ resp'.cause = "FileNotFoundError" ]_vars

\* C4 witness: a retrieval whose file disappeared after the existence check
\* has returned the error result.
C4_Witness ==
    /\ resp # NoResp
    /\ resp.op \in {"tool", "resource"}
    /\ resp.outcome = "error"
    /\ resp.cause = "FileNotFoundError"
    /\ (resp.pattern \o MD) \notin DOMAIN files

\* C5 as stated: a retrieval of an identifier whose file exists and is readable
\* returns exactly the file's text, and the serving path leaves the files
\* unchanged.
C5_ExactContent ==
    [][ /\ (/\ RetrievalReturns
            /\ (resp'.pattern \o MD) \in DOMAIN files
            /\ files[resp'.pattern \o MD].readable) =>
               /\ resp'.outcome = "content"
               /\ resp'.text = files[resp'.pattern \o MD].text
        /\ ServingStep => files' = files ]_vars

\* C5 amended: such a retrieval returns the file's text with every "\r\n" and
\* lone "\r" turned into "\n" and nothing else changed; the serving path
\* leaves the files unchanged.
C5_TranslatedContent ==
    [][ /\ (/\ RetrievalReturns
            /\ (resp'.pattern \o MD) \in DOMAIN files
            /\ files[resp'.pattern \o MD].readable) =>
               /\ resp'.outcome = "content"
               /\ resp'.text = UniversalNewlines(files[resp'.pattern \o MD].text)
        /\ ServingStep => files' = files ]_vars

\* C5 witness: a retrieval has returned the text of a file holding "\r\n".
C5_Witness ==
    /\ resp # NoResp
    /\ resp.op \in {"tool", "resource"}
    /\ resp.outcome = "content"
    /\ (resp.pattern \o MD) \in DOMAIN files
    /\ files[resp.pattern \o MD].readable
    /\ Contains(files[resp.pattern \o MD].text, <<13, 10>>)
    /\ resp.text = <<120, 10, 121>>

\* C10 as stated: every listing request returns the listing of the directory
\* as it is at the time of the request.
C10_ListingOnDemand ==
    [][ (ListingReturns /\ dir_listable) => resp' = RenderList(ListPatterns(files)) ]_vars

\* C10 amended: the listing is made once, by app_lifespan, and stored; every
\* listing request returns that stored listing, whatever was added to or
\* removed from the directory since.
C10_ListingStored ==
    [][ /\ (StartupStep /\ dir_listable) => patterns' = ListPatterns(files)
        /\ started => (started' /\ patterns' = patterns)
        /\ ListingReturns => resp' = RenderList(patterns) ]_vars

\* C10 witness: a listing request has returned the stored listing after the
\* directory changed: it lists a file that is gone and misses one that exists.
C10_Witness ==
    /\ resp # NoResp
    /\ resp.op = "list"
    /\ resp.outcome = "list"
    /\ resp = RenderList(patterns)
    /\ dir_listable
    /\ \E id \in DOMAIN patterns : id \notin DOMAIN ListPatterns(files)
    /\ \E id \in DOMAIN ListPatterns(files) : id \notin DOMAIN patterns

-----------------------------------------------------------------------------
(* MarkdownCleaner.clean_file and clean_all_markdown_files                 *)

\* line 118: 'singleton.md', 'singleton_threadsafe.md',
\* 'README_Generation_Summary.md'
ExcludedNames == {
    <<115, 105, 110, 103, 108, 101, 116, 111, 110, 46, 109, 100>>,
    <<115, 105, 110, 103, 108, 101, 116, 111, 110, 95, 116, 104, 114, 101, 97,
      100, 115, 97, 102, 101, 46, 109, 100>>,
    <<82, 69, 65, 68, 77, 69, 95, 71, 101, 110, 101, 114, 97, 116, 105, 111,
      110, 95, 83, 117, 109, 109, 97, 114, 121, 46, 109, 100>> }

BatchNames == {
    <<97, 46, 109, 100>>,                  \* "a.md"
    <<98, 46, 109, 100>>,                  \* "b.md"
    <<99, 46, 109, 100>>,                  \* "c.md"
    <<97, 46, 116, 120, 116>>,             \* "a.txt"
    <<115, 105, 110, 103, 108, 101, 116, 111, 110, 46, 109, 100>>  \* "singleton.md"
    }

BatchContents == {
    \* "x": nothing to clean
    [text |-> <<120>>, readable |-> TRUE, writable |-> TRUE],
    \* "RU: я\nx": cleaned to ""
    [text |-> <<82, 85, 58, 32, 1103, 10, 120>>, readable |-> TRUE, writable |-> TRUE],
    \* the same in a file that cannot be opened for writing
    [text |-> <<82, 85, 58, 32, 1103, 10, 120>>, readable |-> TRUE, writable |-> FALSE],
    \* a file that cannot be read as UTF-8 text
    [text |-> <<>>, readable |-> FALSE, writable |-> TRUE]
    }

\* a < b for two names, character by character
LexLess(a, b) ==
    \E k \in 1..(Len(b)) :
        /\ \A j \in 1..(k - 1) : j <= Len(a) /\ a[j] = b[j]
        /\ \/ k = Len(a) + 1
           \/ k <= Len(a) /\ a[k] < b[k]

\* sorted(S): the k-th name is the one with k - 1 names before it
sorted(S) ==
    [k \in 1..Cardinality(S) |->
        CHOOSE a \in S : Cardinality({b \in S : LexLess(b, a)}) = k - 1]

\* the first with block of clean_file (lines 87-88): the text read, or the
\* exception raised; clean_file has not returned
clean_file_try_read(fs, name) ==
    LET r == OpenAndRead(fs, name)
    IN  [returned |-> FALSE, ret |-> FALSE, raised |-> r.raised,
         text |-> r.text, fs |-> fs]

\* the rest of the try block (lines 90-102) for the text read before: what
\* it returns, whether it raised, the directory afterwards.
\* open(file_path, 'w') creates the file when it is not there.
clean_file_try_write(fs, name, original) ==
    LET cleaned == clean_content(original)
    IN  IF cleaned = original
        THEN [returned |-> TRUE, ret |-> FALSE, raised |-> FALSE,
              text |-> original, fs |-> fs]
        ELSE IF name \in DOMAIN fs /\ ~fs[name].writable
        THEN [returned |-> FALSE, ret |-> FALSE, raised |-> TRUE,
              text |-> original, fs |-> fs]
        ELSE [returned |-> TRUE, ret |-> TRUE, raised |-> FALSE,
              text |-> original,
              fs |-> [m \in DOMAIN fs \cup {name} |->
                         IF m = name
                         THEN [text |-> cleaned, readable |-> TRUE, writable |-> TRUE]
                         ELSE fs[m]]]

\* a variant of clean_file with no except clause
clean_file_uncaught(t) == t

\* clean_file, for the outcome t of a part of its try block:
\* except Exception: ... return False
clean_file(t) ==
    IF t.raised
    THEN [t EXCEPT !.returned = TRUE, !.ret = FALSE, !.raised = FALSE]
    ELSE t

InitBatch ==
    /\ files \in Directories(BatchNames, BatchContents)
    /\ markdown_files = {}
    /\ idx = 1
    /\ original_content = <<>>
    /\ cleaned_count = 0
    /\ processed_files = <<>>
    /\ bpc = "init"
    /\ CleanerOff
    /\ ServerOff

\* clean_all_markdown_files, lines 110-130: select the files
SelectFiles ==
    /\ bpc = "init"
    /\ LET selected == {f \in DOMAIN files : endswith(f, MD) /\ f \notin ExcludedNames}
       IN  /\ markdown_files' = selected
           /\ bpc' = IF selected = {} THEN "done" ELSE "loop"
    /\ idx' = 1
    /\ cleaned_count' = 0
    /\ UNCHANGED <<cleanerVars, files, serverVars, original_content, processed_files>>

\* lines 131-133 for the outcome t of clean_file: a True result is counted
\* (and the name appended, line 97), an exception leaving clean_file ends
\* the run, and clean_file not having returned goes on to compare and write
LoopStep(name, t) ==
    /\ files' = t.fs
    /\ processed_files' = IF t.ret THEN Append(processed_files, name)
                          ELSE processed_files
    /\ cleaned_count' = IF t.ret THEN cleaned_count + 1 ELSE cleaned_count
    /\ bpc' = IF t.raised THEN "aborted"
              ELSE IF t.returned THEN "loop" ELSE "cleaning"
    /\ idx' = IF t.returned THEN idx + 1 ELSE idx
    /\ original_content' = IF t.raised \/ t.returned THEN <<>> ELSE t.text
    /\ UNCHANGED <<cleanerVars, serverVars, markdown_files>>

\* the loop calls clean_file, which opens and reads the file (lines 87-88)
CleanFileRead ==
    /\ bpc = "loop"
    /\ idx <= Len(sorted(markdown_files))
    /\ LET name == sorted(markdown_files)[idx]
       IN  LoopStep(name, clean_file(clean_file_try_read(files, name)))

\* clean_file cleans the text read, writes it when it changed, and returns
\* (lines 90-106)
CleanFileWrite ==
    /\ bpc = "cleaning"
    /\ LET name == sorted(markdown_files)[idx]
       IN  LoopStep(name, clean_file(clean_file_try_write(files, name, original_content)))

\* lines 135-142: the report
Report ==
    /\ bpc = "loop"
    /\ idx > Len(sorted(markdown_files))
    /\ bpc' = "done"
    /\ UNCHANGED <<cleanerVars, files, serverVars, markdown_files, idx,
                   original_content, cleaned_count, processed_files>>

\* a file is deleted while the run is under way, between two statements of
\* the loop or between the read and the write of clean_file
FileVanishes == bpc \in {"loop", "cleaning"} /\ RemoveFile

NextBatch == SelectFiles \/ CleanFileRead \/ CleanFileWrite \/ Report \/ FileVanishes

\* a step of the script: it moves on to its next statement.  The script is
\* sequential and never waits, so while it has not ended such a step is
\* possible and is not postponed for ever.
ScriptStep ==
    /\ bpc \in {"init", "loop", "cleaning"}
    /\ bpc' \in {"init", "loop", "cleaning", "done", "aborted"}
    /\ idx' \in {idx, idx + 1}
    /\ <<bpc', idx'>> # <<bpc, idx>>

\* a batch run that goes on to its end while files may disappear
SpecBatch == InitBatch /\ [][NextBatch]_vars /\ WF_<<bpc, idx>>(ScriptStep)

-----------------------------------------------------------------------------
(* Properties of the batch run                                             *)

\* the file clean_file is called on, or is about to be called on
CurrentFile == sorted(markdown_files)[idx]

\* the open or the read of clean_file fails: the file is gone or is not
\* UTF-8 text
ReadFails == CurrentFile \notin DOMAIN files \/ ~files[CurrentFile].readable

\* the write of clean_file fails: the text read needs cleaning and the file
\* is there and cannot be opened for writing
WriteFails ==
    /\ clean_content(original_content) # original_content
    /\ CurrentFile \in DOMAIN files
    /\ ~files[CurrentFile].writable

\* the step in which clean_file fails on the current file
FailingStep ==
    /\ ScriptStep
    /\ \/ bpc = "loop" /\ idx <= Len(sorted(markdown_files)) /\ ReadFails
       \/ bpc = "cleaning" /\ WriteFails

\* C9: a failure on one file does not end the batch run: the run never
\* aborts, it ends having passed every selected file to clean_file, and a
\* file on which clean_file failed is not counted as modified: the failing
\* call returns to the loop, which moves on to the next file with the count
\* and the list of modified files as they were.
C9_BatchContinues ==
    /\ [](bpc # "aborted")
    /\ <>(bpc = "done")
    /\ [](bpc = "done" => idx > Len(sorted(markdown_files)))
    /\ [][ FailingStep =>
               /\ cleaned_count' = cleaned_count
               /\ processed_files' = processed_files
               /\ bpc' = "loop"
               /\ idx' = idx + 1 ]_vars

\* C9 witness: a finished run in which clean_file failed on the first file,
\* which is still unreadable or still read-only and in need of cleaning, and
\* cleaned a later one.
C9_Witness ==
    /\ bpc = "done"
    /\ Len(sorted(markdown_files)) >= 2
    /\ LET first == sorted(markdown_files)[1]
       IN  /\ first \in DOMAIN files
           /\ \/ ~files[first].readable
              \/ /\ ~files[first].writable
                 /\ clean_content(UniversalNewlines(files[first].text))
                        # UniversalNewlines(files[first].text)
           /\ \A j \in 1..Len(processed_files) : processed_files[j] # first
    /\ cleaned_count >= 1
    /\ \E k \in 2..Len(sorted(markdown_files)) :
           \E j \in 1..Len(processed_files) :
               processed_files[j] = sorted(markdown_files)[k]

====
